---- MODULE Spec2Model ----
(***************************************************************************)
(* Model of the metrics engine of the J.A.R.V.I.S. system monitor          *)
(* (system_monitor.py): the constructor's state, the tk timer queue, and   *)
(* update_stats with its history deques, rate computation, per-field       *)
(* try-blocks and top-process selection; the animation and code-scroll     *)
(* timers; and the build script with the pre-render script it runs.        *)
(*                                                                         *)
(* Encodings.  A float rate a/b is the pair <<a, b>> (exact, b is the      *)
(* time delta); a label holds the value handed to its formatter.  A read   *)
(* that raises is the value Raise; psutil's None for an attribute it was   *)
(* denied is NoneCpu / NoneName.  A process name is a sequence of          *)
(* characters.                                                             *)
(***************************************************************************)
EXTENDS Integers, Sequences, FiniteSets, TLC

\* ---------------------------------------------------------------- bounds
MaxTicks == 2
MaxClock == 2
MaxBytes == 2
MaxCap == 3
MaxPush == 5
MaxProcs == 3
MaxPoints == 2
MaxFrames == 2
MaxLines == 1

\* ------------------------------------------------------- program constants
max_data_points == 60
NameCut == 10
FRAME_COUNT == 120
ProgressEvery == 10

\* ------------------------------------------------------------- encodings
Raise == -1
NoneCpu == -1
NoneName == <<"None">>
Zero == <<0, 1>>

RatEq(a, b) == a[1] * b[2] = b[1] * a[2]
RatNeg(a) == (a[1] < 0 /\ a[2] > 0) \/ (a[1] > 0 /\ a[2] < 0)

Last(s) == s[Len(s)]

\* ------------------------------------------------------ history buffers
\* deque([0] * n, maxlen=n)
NewDeque(n, fill) == [i \in 1..n |-> fill]

DequeAppendNoEvict(d, v, maxlen) == Append(d, v)

DequeAppendDropNewest(d, v, maxlen) ==
    IF Len(d) >= maxlen THEN Append(SubSeq(d, 1, Len(d) - 1), v) ELSE Append(d, v)

DequeAppendTwice(d, v, maxlen) ==
    IF Len(d) >= maxlen THEN Append(Tail(Append(Tail(d), v)), v) ELSE Append(Append(d, v), v)

\* deque.append on a deque built with maxlen: a full deque drops its oldest
DequeAppend(d, v, maxlen) ==
    IF Len(d) >= maxlen THEN Append(Tail(d), v) ELSE Append(d, v)

\* ------------------------------------------------------ rate computation
RateGuardNonNegative(time_delta) == time_delta >= 0

RateGuardAboveOne(time_delta) == time_delta > 1

\* if time_delta > 0:
RateGuard(time_delta) == time_delta > 0

\* (current - last) / time_delta
Speed(curr, prev, time_delta) == <<curr - prev, time_delta>>

\* ------------------------------------------------- top-process selection
Take(s, n) == SubSeq(s, 1, IF Len(s) < n THEN Len(s) ELSE n)

\* p.info['name'][:10] raises TypeError on None
ComprehensionRaises(table) == \E i \in 1..Len(table) : table[i].name = NoneName

\* [(p.info['name'][:10], p.info['cpu_percent']) for p in ...]
Comprehension(table) ==
    [i \in 1..Len(table) |-> [name |-> Take(table[i].name, NameCut), cpu |-> table[i].cpu]]

\* comparing None with a number raises TypeError; a list of one element is
\* sorted without any comparison
SortRaises(procs) == Len(procs) >= 2 /\ \E i \in 1..Len(procs) : procs[i].cpu = NoneCpu

RECURSIVE InsertDescLate(_, _)
InsertDescLate(sorted, x) ==
    IF sorted = <<>> THEN <<x>>
    ELSE IF Head(sorted).cpu > x.cpu THEN <<Head(sorted)>> \o InsertDescLate(Tail(sorted), x)
    ELSE <<x>> \o sorted

\* place x after every element whose key is >= x's key (stable, descending)
RECURSIVE InsertDesc(_, _)
InsertDesc(sorted, x) ==
    IF sorted = <<>> THEN <<x>>
    ELSE IF Head(sorted).cpu >= x.cpu THEN <<Head(sorted)>> \o InsertDesc(Tail(sorted), x)
    ELSE <<x>> \o sorted

\* sorted(procs, key=lambda x: x[1], reverse=True)
RECURSIVE SortedDesc(_)
SortedDesc(procs) ==
    IF procs = <<>> THEN <<>>
    ELSE InsertDesc(SortedDesc(SubSeq(procs, 1, Len(procs) - 1)), Last(procs))

\* the try-block of the top CPU process: the new text of top_proc_label
TopProcText(table, old) ==
    IF ComprehensionRaises(table) THEN old
    ELSE LET procs == Comprehension(table) IN
         IF SortRaises(procs) THEN old
         ELSE LET top == Take(SortedDesc(procs), 1) IN
              IF top = <<>> THEN old
              ELSE IF top[1].cpu = NoneCpu THEN old
              ELSE IF top[1].cpu > 0 THEN top[1].name
              ELSE old

\* --------------------------------------------------------- battery block
BatteryTextNoSentinel(battery) ==
    CASE battery = "raise" -> "AC"
      [] battery = "none" -> "AC"
      [] battery = "plugged" -> "80%+"
      [] OTHER -> "80%"

\* the text the battery block leaves on battery_label
BatteryText(battery) ==
    CASE battery = "raise" -> "N/A"
      [] battery = "none" -> "AC"
      [] battery = "plugged" -> "80%+"
      [] OTHER -> "80%"

\* ------------------------------------------------------------------ state
VARIABLES
    cpu_history, mem_history, net_up_history, net_down_history,
    last_net_io, last_update,
    ui_ready,
    net_up_label, net_down_label, total_tx_label, total_rx_label,
    swap_label, proc_count_label, battery_label, top_proc_label,
    pending,
    ticks, tick, samples,
    buf, buf_cap, buf_pushed,
    proc_table, proc_selected,
    frames_len, current_frame, shown_frame,
    code_len, code_scroll_offset_left, code_scroll_offset_right,
    startup,
    build_pc, prerender_pc, render_i, cache_frames, stl_present, cache_at_start,
    max_val, graph_pc

engine == <<cpu_history, mem_history, net_up_history, net_down_history,
            last_net_io, last_update, ui_ready,
            net_up_label, net_down_label, total_tx_label, total_rx_label,
            swap_label, proc_count_label, battery_label, top_proc_label,
            pending, ticks, tick, samples>>
bufvars == <<buf, buf_cap, buf_pushed>>
procvars == <<proc_table, proc_selected>>
uivars == <<frames_len, current_frame, shown_frame,
            code_len, code_scroll_offset_left, code_scroll_offset_right, startup>>
buildvars == <<build_pc, prerender_pc, render_i, cache_frames, stl_present, cache_at_start>>
graphvars == <<max_val, graph_pc>>
vars == <<engine, bufvars, procvars, uivars, buildvars, graphvars>>

Callbacks == {"initialize_app", "update_stats", "animate_model", "scroll_code"}

\* ----------------------------------------------------------------- inputs
NameA == <<"a">>
NameB == <<"b">>
NameC == <<"c">>
NameLong == <<"c", "h", "r", "o", "m", "e", "-", "h", "e", "l", "p">>

TieTable == <<[name |-> NameA, cpu |-> 0], [name |-> NameB, cpu |-> 52],
              [name |-> NameC, cpu |-> 52]>>
DeniedTable == <<[name |-> NoneName, cpu |-> NoneCpu], [name |-> NameB, cpu |-> 52]>>
IdleTable == <<[name |-> NameA, cpu |-> 0]>>
TickTables == {<<>>, TieTable, DeniedTable, IdleTable}

Batteries == {"raise", "none", "plugged", "unplugged"}

\* a tick whose every read succeeds
Nominal ==
    [cpu |-> 25, freq_raise |-> FALSE, mem |-> 40,
     net_ok |-> TRUE, now |-> MaxClock, sent |-> MaxBytes, recv |-> MaxBytes,
     swap |-> 3, pids |-> 9, battery |-> "none", procs |-> TieTable, rss_ok |-> TRUE]

\* the reads of one tick: a read that raises before the network section,
\* or any clock value with any value of one byte counter, or any outcome
\* of the swap, process count and battery blocks, or any process table
\* and footer outcome
TickInputs ==
    { [Nominal EXCEPT !.cpu = Raise], [Nominal EXCEPT !.freq_raise = TRUE],
      [Nominal EXCEPT !.mem = Raise], [Nominal EXCEPT !.net_ok = FALSE] }
    \cup { [Nominal EXCEPT !.now = t, !.sent = s] : t \in 0..MaxClock, s \in 0..MaxBytes }
    \cup { [Nominal EXCEPT !.now = t, !.recv = r] : t \in 0..MaxClock, r \in 0..MaxBytes }
    \cup { [Nominal EXCEPT !.swap = sw, !.pids = pc, !.battery = b] :
             sw \in {Raise, 3}, pc \in {Raise, 9}, b \in Batteries }
    \cup { [Nominal EXCEPT !.procs = pt, !.rss_ok = ro] : pt \in TickTables, ro \in BOOLEAN }

DefaultTopProc == <<".", ".", ".">>

StartClocks == {1}
StartBytes == {1}

NoTick == [in |-> Nominal, stage |-> "none", prev_io |-> [bytes_sent |-> 0, bytes_recv |-> 0],
           prev_update |-> 0,
           before |-> [swap |-> 0, pids |-> 0, battery |-> "N/A", top |-> DefaultTopProc]]

\* ------------------------------------------------------------ update_stats
CpuOk(e) == e.cpu # Raise
FreqOk(e) == CpuOk(e) /\ ~e.freq_raise
MemOk(e) == FreqOk(e) /\ e.mem # Raise
NetOk(e) == MemOk(e) /\ e.net_ok

\* where the tick stopped: the read that raised, or "done"
Stage(e) ==
    IF ~CpuOk(e) THEN "cpu"
    ELSE IF ~FreqOk(e) THEN "freq"
    ELSE IF ~MemOk(e) THEN "mem"
    ELSE IF ~NetOk(e) THEN "net"
    ELSE IF ~e.rss_ok THEN "footer"
    ELSE "done"

StorePrevOnlyWithRate(e, time_delta, old, new) ==
    IF NetOk(e) /\ RateGuard(time_delta) THEN new ELSE old

\* self.last_net_io = current_net_io
StorePrev(e, time_delta, old, new) == IF NetOk(e) THEN new ELSE old

StoreClockWhenRead(e, time_delta, old, new) == IF MemOk(e) THEN new ELSE old

\* self.last_update = now, the statement after the one above
StoreClock(e, time_delta, old, new) == IF NetOk(e) THEN new ELSE old

\* the body of update_stats between try: and the except clause
UpdateStatsBody(e) ==
    LET time_delta == e.now - last_update
        rate == NetOk(e) /\ RateGuard(time_delta)
        upload_speed == Speed(e.sent, last_net_io.bytes_sent, time_delta)
        download_speed == Speed(e.recv, last_net_io.bytes_recv, time_delta)
    IN
    /\ ticks' = ticks + 1
    /\ tick' = [in |-> e, stage |-> Stage(e), prev_io |-> last_net_io,
                prev_update |-> last_update,
                before |-> [swap |-> swap_label, pids |-> proc_count_label,
                            battery |-> battery_label, top |-> top_proc_label]]
    /\ cpu_history' = IF CpuOk(e) THEN DequeAppend(cpu_history, e.cpu, max_data_points)
                      ELSE cpu_history
    /\ mem_history' = IF MemOk(e) THEN DequeAppend(mem_history, e.mem, max_data_points)
                      ELSE mem_history
    /\ net_up_history' = IF rate THEN DequeAppend(net_up_history, upload_speed, max_data_points)
                         ELSE net_up_history
    /\ net_down_history' = IF rate THEN DequeAppend(net_down_history, download_speed, max_data_points)
                           ELSE net_down_history
    /\ net_up_label' = IF rate THEN upload_speed ELSE net_up_label
    /\ net_down_label' = IF rate THEN download_speed ELSE net_down_label
    /\ total_tx_label' = IF rate THEN e.sent ELSE total_tx_label
    /\ total_rx_label' = IF rate THEN e.recv ELSE total_rx_label
    /\ last_net_io' = StorePrev(e, time_delta, last_net_io,
                                [bytes_sent |-> e.sent, bytes_recv |-> e.recv])
    /\ last_update' = StoreClock(e, time_delta, last_update, e.now)
    /\ swap_label' = IF NetOk(e) /\ e.swap # Raise THEN e.swap ELSE swap_label
    /\ proc_count_label' = IF NetOk(e) /\ e.pids # Raise THEN e.pids ELSE proc_count_label
    /\ battery_label' = IF NetOk(e) THEN BatteryText(e.battery) ELSE battery_label
    /\ top_proc_label' = IF NetOk(e) THEN TopProcText(e.procs, top_proc_label)
                         ELSE top_proc_label
    /\ samples' = IF NetOk(e)
                  THEN Append(samples, [bytes_sent |-> e.sent, bytes_recv |-> e.recv, at |-> e.now])
                  ELSE samples

RescheduleOnlyOnSuccess(e, queue) ==
    IF Stage(e) = "done" THEN [queue EXCEPT !["update_stats"] = @ + 1] ELSE queue

RescheduleAlsoInTry(e, queue) ==
    IF Stage(e) = "done" THEN [queue EXCEPT !["update_stats"] = @ + 2]
    ELSE [queue EXCEPT !["update_stats"] = @ + 1]

\* self.root.after(1000, self.update_stats), after the try statement
Reschedule(e, queue) == [queue EXCEPT !["update_stats"] = @ + 1]

\* ------------------------------------------------- animate_model, scroll_code
NoImage == -1

\* self.model_label.config(image=self.frames[self.current_frame])
AnimateShown(len, cur, shown) == IF len > 0 THEN cur ELSE shown

AnimateFrameWrapLate(len, cur) == IF len > 0 THEN (cur + 1) % (len + 1) ELSE cur

\* self.current_frame = (self.current_frame + 1) % len(self.frames)
AnimateFrame(len, cur) == IF len > 0 THEN (cur + 1) % len ELSE cur

\* offsets in tenths of a line: (offset + 0.5) % len(self.code_lines)
ScrollLeft(len, off) == IF len > 0 THEN (off + 5) % (10 * len) ELSE off

\* (offset + 0.3) % len(self.code_lines)
ScrollRight(len, off) == IF len > 0 THEN (off + 3) % (10 * len) ELSE off

\* the fields the engine owns
owned == <<cpu_history, mem_history, net_up_history, net_down_history,
           last_net_io, last_update>>

AnimateModelOwnedPushes ==
    /\ cpu_history' = DequeAppend(cpu_history, current_frame, max_data_points)
    /\ UNCHANGED <<mem_history, net_up_history, net_down_history, last_net_io, last_update>>

\* animate_model assigns current_frame and the label's image, nothing else
AnimateModelOwned == UNCHANGED owned

\* scroll_code assigns the two scroll offsets, nothing else
ScrollCodeOwned == UNCHANGED owned

\* ------------------------------------------------------------ initialize_app
\* load_frames reports progress for every tenth frame it loads
LoadFramesSteps(nframes) ==
    [k \in 1..((nframes + ProgressEvery - 1) \div ProgressEvery) |-> "progress"]

StartupStepsDestroyEarly(nframes) ==
    <<"progress">> \o <<"destroy">> \o LoadFramesSteps(nframes) \o <<"load_frames">>
    \o <<"progress", "load_code_lines", "progress", "setup_ui",
         "update_stats", "animate_model", "scroll_code">>

\* the calls initialize_app makes, in order; a load is logged when it returns
StartupSteps(nframes) ==
    <<"progress">> \o LoadFramesSteps(nframes) \o <<"load_frames">>
    \o <<"progress", "load_code_lines", "progress", "destroy", "setup_ui",
         "update_stats", "animate_model", "scroll_code">>

\* ------------------------------------------------------------------ actions
\* the state __init__ leaves: both counters sampled, four full deques of
\* zeros, no widget of the main interface yet, initialize_app on the timer
EngineInit ==
    /\ cpu_history = NewDeque(max_data_points, 0)
    /\ mem_history = NewDeque(max_data_points, 0)
    /\ net_up_history = NewDeque(max_data_points, Zero)
    /\ net_down_history = NewDeque(max_data_points, Zero)
    /\ \E s \in StartBytes, r \in StartBytes :
          last_net_io = [bytes_sent |-> s, bytes_recv |-> r]
    /\ last_update \in StartClocks
    /\ ui_ready = FALSE
    /\ net_up_label = Zero
    /\ net_down_label = Zero
    /\ total_tx_label = 0
    /\ total_rx_label = 0
    /\ swap_label = 0
    /\ proc_count_label = 0
    /\ battery_label = "N/A"
    /\ pending = [c \in Callbacks |-> IF c = "initialize_app" THEN 1 ELSE 0]
    /\ ticks = 0
    /\ tick = NoTick
    /\ samples = <<[bytes_sent |-> last_net_io.bytes_sent,
                    bytes_recv |-> last_net_io.bytes_recv, at |-> last_update]>>

BufIdle == buf = <<>> /\ buf_cap = 0 /\ buf_pushed = <<>>

\* self.frames = [], self.current_frame = 0, self.code_lines = [], offsets 0
UiInit ==
    /\ frames_len = 0
    /\ current_frame = 0
    /\ shown_frame = NoImage
    /\ code_len = 0
    /\ code_scroll_offset_left = 0
    /\ code_scroll_offset_right = 0
    /\ startup = <<>>

BuildIdle ==
    /\ build_pc = "off"
    /\ prerender_pc = "off"
    /\ render_i = 0
    /\ cache_frames = 0
    /\ stl_present = FALSE
    /\ cache_at_start = 0

\* draw_network_graph has not been called
GraphIdle == max_val = Zero /\ graph_pc = "off"

ProcIdle == proc_table = <<>> /\ proc_selected = FALSE

Init ==
    /\ EngineInit
    /\ top_proc_label = DefaultTopProc
    /\ BufIdle
    /\ ProcIdle
    /\ UiInit
    /\ BuildIdle
    /\ GraphIdle

\* the timer set by __init__ fires: the frames and code lines are loaded,
\* the loading screen is destroyed, setup_ui builds the widgets, then the
\* first update_stats, animate_model and scroll_code run inside the handler
InitializeAppWith(inputs, frame_counts, line_counts) ==
    /\ pending["initialize_app"] > 0
    /\ ui_ready' = TRUE
    /\ \E nframes \in frame_counts, nlines \in line_counts :
          /\ frames_len' = nframes
          /\ code_len' = nlines
          /\ startup' = StartupSteps(nframes)
          /\ shown_frame' = AnimateShown(nframes, current_frame, shown_frame)
          /\ current_frame' = AnimateFrame(nframes, current_frame)
          /\ code_scroll_offset_left' = ScrollLeft(nlines, code_scroll_offset_left)
          /\ code_scroll_offset_right' = ScrollRight(nlines, code_scroll_offset_right)
    /\ \E e \in inputs :
          /\ UpdateStatsBody(e)
          /\ pending' = [Reschedule(e, pending) EXCEPT
                           !["initialize_app"] = @ - 1,
                           !["animate_model"] = @ + 1,
                           !["scroll_code"] = @ + 1]
    /\ UNCHANGED <<bufvars, procvars, buildvars, graphvars>>

NoAssets == {0}

\* start-up with an empty cache directory
InitializeAppOn(inputs) == InitializeAppWith(inputs, NoAssets, NoAssets)

\* the timer set by the previous tick fires
UpdateStatsOn(inputs) ==
    /\ pending["update_stats"] > 0
    /\ ticks < MaxTicks
    /\ \E e \in inputs :
          /\ UpdateStatsBody(e)
          /\ pending' = Reschedule(e, [pending EXCEPT !["update_stats"] = @ - 1])
    /\ UNCHANGED <<ui_ready, bufvars, procvars, uivars, buildvars, graphvars>>

\* the 50 ms timer of animate_model fires
AnimateModel ==
    /\ pending["animate_model"] > 0
    /\ shown_frame' = AnimateShown(frames_len, current_frame, shown_frame)
    /\ current_frame' = AnimateFrame(frames_len, current_frame)
    /\ pending' = [pending EXCEPT !["animate_model"] = @ - 1 + 1]
    /\ AnimateModelOwned
    /\ UNCHANGED <<ui_ready, net_up_label, net_down_label, total_tx_label, total_rx_label,
                   swap_label, proc_count_label, battery_label, top_proc_label,
                   ticks, tick, samples,
                   frames_len, code_len, code_scroll_offset_left, code_scroll_offset_right,
                   startup, bufvars, procvars, buildvars, graphvars>>

\* the timer of scroll_code fires (100 ms without code lines, else 80 ms)
ScrollCode ==
    /\ pending["scroll_code"] > 0
    /\ code_scroll_offset_left' = ScrollLeft(code_len, code_scroll_offset_left)
    /\ code_scroll_offset_right' = ScrollRight(code_len, code_scroll_offset_right)
    /\ pending' = [pending EXCEPT !["scroll_code"] = @ - 1 + 1]
    /\ ScrollCodeOwned
    /\ UNCHANGED <<ui_ready, net_up_label, net_down_label, total_tx_label, total_rx_label,
                   swap_label, proc_count_label, battery_label, top_proc_label,
                   ticks, tick, samples,
                   frames_len, current_frame, shown_frame, code_len,
                   startup, bufvars, procvars, buildvars, graphvars>>

InitializeApp == InitializeAppOn(TickInputs)

UpdateStats == UpdateStatsOn(TickInputs)

Next == InitializeApp \/ UpdateStats

Spec == Init /\ [][Next]_vars

\* -------------------------------------------- the loop under a fair timer
\* one tick per place where update_stats can raise, inside or outside an
\* inner try-block, and ticks that raise nowhere
LoopInputs ==
    { [Nominal EXCEPT !.cpu = Raise], [Nominal EXCEPT !.freq_raise = TRUE],
      [Nominal EXCEPT !.mem = Raise], [Nominal EXCEPT !.net_ok = FALSE],
      [Nominal EXCEPT !.rss_ok = FALSE], [Nominal EXCEPT !.swap = Raise],
      [Nominal EXCEPT !.pids = Raise], [Nominal EXCEPT !.battery = "raise"],
      [Nominal EXCEPT !.procs = DeniedTable], Nominal,
      [Nominal EXCEPT !.now = 0, !.sent = 0], [Nominal EXCEPT !.battery = "plugged"],
      [Nominal EXCEPT !.now = 1], [Nominal EXCEPT !.sent = 0, !.recv = 0],
      [Nominal EXCEPT !.procs = IdleTable], [Nominal EXCEPT !.battery = "unplugged"] }

LoopInitializeApp == InitializeAppOn(LoopInputs)

LoopUpdateStats == UpdateStatsOn(LoopInputs)

LoopNext == LoopInitializeApp \/ LoopUpdateStats

\* tk's main loop runs every callback whose timer has expired
LoopSpec ==
    Init /\ [][LoopNext]_vars /\ WF_vars(LoopInitializeApp) /\ WF_vars(LoopUpdateStats)

\* the same loop with no assumption on the timers
LoopSafetySpec == Init /\ [][LoopNext]_vars

\* ------------------------------------------------ all timers interleaved
\* ticks that raise before, at and after the network section, that skip
\* the rate, and that complete
TimerInputs ==
    { [Nominal EXCEPT !.cpu = Raise], [Nominal EXCEPT !.net_ok = FALSE],
      [Nominal EXCEPT !.rss_ok = FALSE], Nominal,
      [Nominal EXCEPT !.now = 0, !.sent = 0], [Nominal EXCEPT !.procs = DeniedTable] }

TimerInitializeApp == InitializeAppWith(TimerInputs, 0..MaxFrames, 0..MaxLines)

TimerUpdateStats == UpdateStatsOn(TimerInputs)

TimerNext == TimerInitializeApp \/ TimerUpdateStats \/ AnimateModel \/ ScrollCode

TimerSpec == Init /\ [][TimerNext]_vars

\* ------------------------------------------- a history buffer on its own
PushVals == {0, 1, 2}

\* deque([0] * n, maxlen=n) for a capacity n
BufInit ==
    /\ EngineInit
    /\ top_proc_label = DefaultTopProc
    /\ ProcIdle
    /\ UiInit
    /\ BuildIdle
    /\ GraphIdle
    /\ buf_cap \in 1..MaxCap
    /\ buf = NewDeque(buf_cap, 0)
    /\ buf_pushed = <<>>

\* history.append(v)
BufPush ==
    /\ Len(buf_pushed) < MaxPush
    /\ \E v \in PushVals :
          /\ buf' = DequeAppend(buf, v, buf_cap)
          /\ buf_pushed' = Append(buf_pushed, v)
    /\ UNCHANGED <<engine, buf_cap, procvars, uivars, buildvars, graphvars>>

BufNext == BufPush

BufSpec == BufInit /\ [][BufNext]_vars

\* ------------------------------------- top-process selection on its own
ProcNames == {NameA, NameB, NameC, NameLong, NoneName}
ProcCpus == {NoneCpu, 0, 30, 52}

RECURSIVE TablesUpTo(_)
TablesUpTo(n) ==
    IF n = 0 THEN {<<>>}
    ELSE LET shorter == TablesUpTo(n - 1) IN
         shorter \cup { Append(t, [name |-> nm, cpu |-> c]) :
                          t \in {u \in shorter : Len(u) = n - 1}, nm \in ProcNames, c \in ProcCpus }

ProcTables == TablesUpTo(MaxProcs)

\* a process table and the text an earlier tick left on the label
ProcInit ==
    /\ EngineInit
    /\ BufIdle
    /\ UiInit
    /\ BuildIdle
    /\ GraphIdle
    /\ top_proc_label \in {DefaultTopProc, NameC}
    /\ proc_table \in ProcTables
    /\ proc_selected = FALSE

\* the try-block of the top CPU process applied to the table
SelectTop ==
    /\ ~proc_selected
    /\ top_proc_label' = TopProcText(proc_table, top_proc_label)
    /\ proc_selected' = TRUE
    /\ UNCHANGED <<cpu_history, mem_history, net_up_history, net_down_history,
                   last_net_io, last_update, ui_ready,
                   net_up_label, net_down_label, total_tx_label, total_rx_label,
                   swap_label, proc_count_label, battery_label,
                   pending, ticks, tick, samples, bufvars, proc_table, uivars, buildvars, graphvars>>

ProcNext == SelectTop

ProcSpec == ProcInit /\ [][ProcNext]_vars

\* ------------------------------------- build.py and prerender_model.py
\* cache_frames = n stands for frame_000.png .. frame_(n-1).png in the cache
frames_exist == cache_frames >= 1

\* the cache and the model file as the build finds them
BuildInit ==
    /\ EngineInit
    /\ top_proc_label = DefaultTopProc
    /\ BufIdle
    /\ ProcIdle
    /\ UiInit
    /\ GraphIdle
    /\ build_pc = "start"
    /\ prerender_pc = "off"
    /\ render_i = 0
    /\ cache_frames \in {0, 1, FRAME_COUNT}
    /\ cache_at_start = cache_frames
    /\ stl_present \in BOOLEAN

BuildKeeps ==
    UNCHANGED <<engine, bufvars, procvars, uivars, stl_present, cache_at_start, graphvars>>

\* build.main up to the frame check: installing PyInstaller may fail;
\* without frame_000.png the pre-render script is run and waited for
BuildStart ==
    /\ build_pc = "start"
    /\ \/ build_pc' = "failed" /\ UNCHANGED prerender_pc
       \/ frames_exist /\ build_pc' = "pyinstaller" /\ UNCHANGED prerender_pc
       \/ ~frames_exist /\ build_pc' = "prerender" /\ prerender_pc' = "start"
    /\ UNCHANGED <<render_i, cache_frames>>
    /\ BuildKeeps

\* prerender_model.main before its loop: without the model file it returns,
\* reading the model may raise
PrerenderStart ==
    /\ prerender_pc = "start"
    /\ IF ~stl_present
       THEN prerender_pc' = "exit0"
       ELSE prerender_pc' \in {"render", "exit1"}
    /\ render_i' = 0
    /\ UNCHANGED <<build_pc, cache_frames>>
    /\ BuildKeeps

\* one iteration of the loop: render_frame writes frame_i or raises
RenderFrame ==
    /\ prerender_pc = "render"
    /\ render_i < FRAME_COUNT
    /\ \/ /\ cache_frames' = IF cache_frames > render_i + 1 THEN cache_frames ELSE render_i + 1
          /\ render_i' = render_i + 1
          /\ UNCHANGED prerender_pc
       \/ /\ prerender_pc' = "exit1"
          /\ UNCHANGED <<render_i, cache_frames>>
    /\ UNCHANGED build_pc
    /\ BuildKeeps

\* the loop is over: the script ends with exit status 0
PrerenderDone ==
    /\ prerender_pc = "render"
    /\ render_i = FRAME_COUNT
    /\ prerender_pc' = "exit0"
    /\ UNCHANGED <<build_pc, render_i, cache_frames>>
    /\ BuildKeeps

\* subprocess.check_call returns, or raises on a non-zero exit status
PrerenderReturns ==
    /\ build_pc = "prerender"
    /\ prerender_pc \in {"exit0", "exit1"}
    /\ build_pc' = IF prerender_pc = "exit0" THEN "pyinstaller" ELSE "failed"
    /\ UNCHANGED <<prerender_pc, render_i, cache_frames>>
    /\ BuildKeeps

\* the PyInstaller subprocess ends
PyInstallerReturns ==
    /\ build_pc = "pyinstaller"
    /\ build_pc' \in {"done", "failed"}
    /\ UNCHANGED <<prerender_pc, render_i, cache_frames>>
    /\ BuildKeeps

BuildNext ==
    \/ BuildStart
    \/ PrerenderStart
    \/ RenderFrame
    \/ PrerenderDone
    \/ PrerenderReturns
    \/ PyInstallerReturns

BuildSpec == BuildInit /\ [][BuildNext]_vars

\* ------------------------------------------ draw_network_graph on its own
\* the rates a history can hold: negative, zero, below 1, above 1
RateVals == {<<-1, 1>>, Zero, <<1, 2>>, <<2, 1>>}

\* the fallback divisor of lines 683-684
One == <<1, 1>>

RatGt(a, b) == a[1] * b[2] > b[1] * a[2]

RECURSIVE MaxOf(_)
\* max(history): the first of the largest elements
MaxOf(h) ==
    IF Len(h) = 1 THEN h[1]
    ELSE LET m == MaxOf(SubSeq(h, 1, Len(h) - 1))
         IN IF RatGt(Last(h), m) THEN Last(h) ELSE m

\* max(a, b) of two numbers
Max2(a, b) == IF RatGt(b, a) THEN b ELSE a

ScaleMaxNoFallback(h) == MaxOf(h)

\* max(h) if max(h) > 0 else 1
ScaleMax(h) == IF RatGt(MaxOf(h), Zero) THEN MaxOf(h) ELSE One

\* max_val = max(max_up, max_down)
GraphMaxVal(up, down) == Max2(ScaleMax(up), ScaleMax(down))

\* val / max_val raises ZeroDivisionError for a zero divisor
GraphPc(divisor) == IF RatEq(divisor, Zero) THEN "ZeroDivisionError" ELSE "drawn"

\* two full histories of any content, everything else as __init__ leaves it
GraphInit ==
    /\ cpu_history = NewDeque(max_data_points, 0)
    /\ mem_history = NewDeque(max_data_points, 0)
    /\ net_up_history \in [1..MaxPoints -> RateVals]
    /\ net_down_history \in [1..MaxPoints -> RateVals]
    /\ \E s \in StartBytes, r \in StartBytes :
          last_net_io = [bytes_sent |-> s, bytes_recv |-> r]
    /\ last_update \in StartClocks
    /\ ui_ready = TRUE
    /\ net_up_label = Zero
    /\ net_down_label = Zero
    /\ total_tx_label = 0
    /\ total_rx_label = 0
    /\ swap_label = 0
    /\ proc_count_label = 0
    /\ battery_label = "N/A"
    /\ top_proc_label = DefaultTopProc
    /\ pending = [c \in Callbacks |-> 0]
    /\ ticks = 0
    /\ tick = NoTick
    /\ samples = <<[bytes_sent |-> last_net_io.bytes_sent,
                    bytes_recv |-> last_net_io.bytes_recv, at |-> last_update]>>
    /\ BufIdle
    /\ ProcIdle
    /\ UiInit
    /\ BuildIdle
    /\ max_val = Zero
    /\ graph_pc = "idle"

GraphKeeps ==
    UNCHANGED <<cpu_history, mem_history, last_net_io, last_update, ui_ready,
                net_up_label, net_down_label, total_tx_label, total_rx_label,
                swap_label, proc_count_label, battery_label, top_proc_label,
                pending, ticks, tick, samples, bufvars, procvars, uivars, buildvars>>

\* draw_network_graph on the histories as they are
DrawNetworkGraph ==
    /\ graph_pc = "idle"
    /\ max_val' = GraphMaxVal(net_up_history, net_down_history)
    /\ graph_pc' = GraphPc(max_val')
    /\ UNCHANGED <<net_up_history, net_down_history>>
    /\ GraphKeeps

\* the network section of a tick with a rate: both appends, then the drawing
AppendAndDraw ==
    /\ graph_pc # "ZeroDivisionError"
    /\ \E up \in RateVals, down \in RateVals :
          /\ net_up_history' = DequeAppend(net_up_history, up, MaxPoints)
          /\ net_down_history' = DequeAppend(net_down_history, down, MaxPoints)
    /\ max_val' = GraphMaxVal(net_up_history', net_down_history')
    /\ graph_pc' = GraphPc(max_val')
    /\ GraphKeeps

GraphNext == DrawNetworkGraph \/ AppendAndDraw

GraphSpec == GraphInit /\ [][GraphNext]_vars

\* ================================================================ claims

\* C1: in every reachable state each of the four history buffers has
\* length exactly max_data_points.
C1_HistoryLengths ==
    /\ Len(cpu_history) = max_data_points
    /\ Len(mem_history) = max_data_points
    /\ Len(net_up_history) = max_data_points
    /\ Len(net_down_history) = max_data_points

\* a failing tick followed by a tick that pushed on all four buffers
C1_Witness ==
    /\ ticks = 2
    /\ tick.stage = "done"
    /\ Last(cpu_history) = tick.in.cpu
    /\ cpu_history[max_data_points - 1] = 0
    /\ Last(mem_history) = tick.in.mem
    /\ Last(net_up_history) # Zero
    /\ Last(net_down_history) # Zero

\* C2: after k pushes onto a fresh buffer of capacity N its contents are
\* the last N elements of N zeros followed by the pushed values; its last
\* element is the newest pushed value, and while k < N the first N - k
\* elements are 0.
C2_FifoWindow ==
    LET all == [i \in 1..buf_cap |-> 0] \o buf_pushed
        k == Len(buf_pushed)
    IN /\ Len(buf) = buf_cap
       /\ \A i \in 1..buf_cap : buf[i] = all[k + i]
       /\ k > 0 => buf[buf_cap] = buf_pushed[k]
       /\ k < buf_cap => \A i \in 1..(buf_cap - k) : buf[i] = 0

\* more pushes than the capacity, so pushed values have been evicted
C2_Witness ==
    /\ buf_cap = 2
    /\ buf_pushed = <<1, 2, 1, 2>>
    /\ buf = <<1, 2>>

\* ------------------------------------------------ vocabulary of the claims
\* the step is one execution of update_stats
IsTick == ticks' = ticks + 1

\* the tick read the clock and the network counters
SampledNet(t) == t.stage \in {"footer", "done"}

NetPublished ==
    <<net_up_history, net_down_history, net_up_label, net_down_label,
      total_tx_label, total_rx_label>>

\* exactly one value was pushed on a full buffer
PushedOne(before, after, v) ==
    /\ Len(after) = Len(before)
    /\ \A i \in 1..(Len(before) - 1) : after[i] = before[i + 1]
    /\ after[Len(after)] = v

\* C3: a decreased byte counter gives the rate 0 for that tick, so no
\* negative value is ever in net_up_history or net_down_history or shown
\* as the current rate.
C3_NoNegativeRate ==
    /\ \A i \in 1..Len(net_up_history) : ~RatNeg(net_up_history[i])
    /\ \A i \in 1..Len(net_down_history) : ~RatNeg(net_down_history[i])
    /\ ~RatNeg(net_up_label)
    /\ ~RatNeg(net_down_label)

\* C4: a tick whose time delta is zero or negative divides nothing,
\* appends nothing to the network histories and leaves the published
\* rates and totals as they were.
C4_SkipOnNonPositiveDelta ==
    [][ (IsTick /\ SampledNet(tick') /\ tick'.in.now - last_update <= 0)
          => /\ NetPublished' = NetPublished
             /\ \A i \in 1..Len(net_up_history') : net_up_history'[i][2] > 0
             /\ \A i \in 1..Len(net_down_history') : net_down_history'[i][2] > 0
             /\ net_up_label'[2] > 0 /\ net_down_label'[2] > 0 ]_vars

\* a completed tick whose clock read equals the stored last_update, after
\* an earlier tick had published a rate
C4_Witness ==
    /\ ticks = 2
    /\ tick.stage = "done"
    /\ tick.in.now = tick.prev_update
    /\ tick.in.sent # tick.prev_io.bytes_sent
    /\ net_up_label # Zero

\* C5: with a positive delta and counters that did not decrease, the
\* upload and download rates of a tick are the counter differences to the
\* sample of the most recent earlier sampling, divided by the delta.
C5_RateFormula ==
    [][ LET prev == Last(samples)
            now == tick'.in.now
            up == <<tick'.in.sent - prev.bytes_sent, now - prev.at>>
            down == <<tick'.in.recv - prev.bytes_recv, now - prev.at>>
        IN (IsTick /\ SampledNet(tick') /\ now - prev.at > 0
              /\ tick'.in.sent >= prev.bytes_sent /\ tick'.in.recv >= prev.bytes_recv)
             => /\ RatEq(net_up_label', up) /\ RatEq(net_down_label', down)
                /\ PushedOne(net_up_history, net_up_history', net_up_label')
                /\ PushedOne(net_down_history, net_down_history', net_down_label')
                /\ ~RatNeg(net_up_label') /\ ~RatNeg(net_down_label') ]_vars

\* the first tick skipped its rate, the second computed one against the
\* first tick's sample
C5_Witness ==
    /\ ticks = 2
    /\ tick.stage = "done"
    /\ Len(samples) = 3
    /\ samples[2].at <= samples[1].at
    /\ samples[3].at > samples[2].at
    /\ samples[3].bytes_sent > samples[2].bytes_sent
    /\ samples[3].bytes_recv >= samples[2].bytes_recv
    /\ net_up_label = <<samples[3].bytes_sent - samples[2].bytes_sent,
                        samples[3].at - samples[2].at>>

C7_FieldFailureIsolated ==
    [][ (IsTick /\ tick'.stage \in {"cpu", "freq", "mem"})
          => /\ tick'.stage # "cpu" => PushedOne(cpu_history, cpu_history', tick'.in.cpu)
             /\ tick'.stage # "mem" => PushedOne(mem_history, mem_history', tick'.in.mem)
             /\ last_net_io' = [bytes_sent |-> tick'.in.sent, bytes_recv |-> tick'.in.recv]
             /\ last_update' = tick'.in.now ]_vars

\* C8: after every execution of update_stats, raising or not, exactly one
\* further tick is on the timer, and under fair timer delivery every tick
\* is followed by another.
C8_LoopNeverStops ==
    /\ [](ui_ready => pending["update_stats"] = 1)
    /\ \A n \in 0..(MaxTicks - 1) : (ticks = n) ~> (ticks = n + 1)

\* a tick started by the timer raised and the next one is scheduled
C8_Witness ==
    /\ ticks = 2
    /\ tick.stage = "cpu"
    /\ pending["update_stats"] = 1

\* entries whose name and cpu_percent were both read
Readable(table) ==
    {i \in 1..Len(table) : table[i].name # NoneName /\ table[i].cpu # NoneCpu}

\* the first of the entries of S with the largest cpu_percent
FirstMax(table, S) ==
    CHOOSE i \in S : /\ \A j \in S : table[j].cpu <= table[i].cpu
                     /\ \A j \in S : j < i => table[j].cpu < table[i].cpu

\* C9: an unreadable process is only skipped: the selection still yields
\* the maximum over the readable processes.
C9_UnreadableSkipped ==
    proc_selected =>
        LET S == Readable(proc_table) IN
        (S # {} /\ proc_table[FirstMax(proc_table, S)].cpu > 0)
            => top_proc_label = Take(proc_table[FirstMax(proc_table, S)].name, NameCut)

\* C10: over a readable table with a positive maximum the selection yields
\* the process with the maximum CPU percent, the first of them in table
\* order when several share it.
C10_FirstMaxSelected ==
    LET S == 1..Len(proc_table) IN
    (proc_selected /\ S # {} /\ Readable(proc_table) = S
        /\ proc_table[FirstMax(proc_table, S)].cpu > 0)
      => top_proc_label = Take(proc_table[FirstMax(proc_table, S)].name, NameCut)

\* [(a,0),(b,5.2),(c,5.2)] has yielded b
C10_Witness ==
    /\ proc_selected
    /\ proc_table = TieTable
    /\ top_proc_label = NameB

\* the mark of a value that could not be read
Unavailable == Raise

\* no entry of the table is worth reporting: none was read, or the largest
\* cpu_percent read is 0
NoEligible(table) ==
    LET S == Readable(table) IN S = {} \/ \A i \in S : table[i].cpu = 0

\* C11: on a tick whose process table is empty, wholly unreadable or has a
\* maximum of 0, the top process published is absent, not an earlier name.
C11_AbsentWhenNoneEligible ==
    [][ (IsTick /\ SampledNet(tick') /\ NoEligible(tick'.in.procs))
          => top_proc_label' = DefaultTopProc ]_vars

\* C12: when the battery read raises, the battery field is "N/A", the CPU
\* and memory pushes of the tick are as usual and the tick goes on to its
\* remaining steps and reschedules itself.
C12_BatteryFailureIsolated ==
    [][ (IsTick /\ SampledNet(tick') /\ tick'.in.battery = "raise")
          => /\ battery_label' = "N/A"
             /\ PushedOne(cpu_history, cpu_history', tick'.in.cpu)
             /\ PushedOne(mem_history, mem_history', tick'.in.mem)
             /\ last_update' = tick'.in.now
             /\ LET t == tick'.in.procs
                    S == 1..Len(t)
                IN (S # {} /\ Readable(t) = S /\ t[FirstMax(t, S)].cpu > 0)
                     => top_proc_label' = Take(t[FirstMax(t, S)].name, NameCut)
             /\ pending'["update_stats"] = 1 ]_vars

\* a battery read raised on a tick after one that had shown a battery state
C12_Witness ==
    /\ ticks = 2
    /\ tick.stage = "done"
    /\ tick.in.battery = "raise"
    /\ tick.before.battery = "80%"
    /\ battery_label = "N/A"
    /\ Last(cpu_history) = tick.in.cpu
    /\ Last(mem_history) = tick.in.mem

\* C13: a failed read of swap, process count, battery or top process
\* publishes the unavailable mark for that tick, never the earlier value.
C13_FailedReadShowsSentinel ==
    [][ (IsTick /\ SampledNet(tick'))
          => /\ tick'.in.swap = Raise => swap_label' = Unavailable
             /\ tick'.in.pids = Raise => proc_count_label' = Unavailable
             /\ tick'.in.battery = "raise" => battery_label' = "N/A"
             /\ Readable(tick'.in.procs) # 1..Len(tick'.in.procs)
                  => top_proc_label' = DefaultTopProc ]_vars

\* C14: at most one update_stats invocation is pending or running: before
\* start-up none (initialize_app is pending once), afterwards exactly one,
\* and the count only changes when initialize_app hands over to it.
C14_OneTickAtATime ==
    /\ [](/\ pending["update_stats"] \in {0, 1}
          /\ pending["initialize_app"] \in {0, 1}
          /\ pending["initialize_app"] + pending["update_stats"] = 1
          /\ pending["update_stats"] = 1 => (ui_ready /\ ticks >= 1))
    /\ [][ pending'["update_stats"] # pending["update_stats"]
             => (pending["initialize_app"] = 1 /\ pending'["initialize_app"] = 0) ]_vars

\* a timer-started tick has run while the animation timer fired in between
C14_Witness ==
    /\ ticks = 2
    /\ pending["update_stats"] = 1
    /\ frames_len = 2
    /\ shown_frame = 1

\* C15: a tick that completes pushes exactly one value on cpu_history and
\* on mem_history, and one on each network history if it computed a rate,
\* none otherwise; in every tick the two network histories are pushed
\* together or not at all.
C15_PushesPerTick ==
    [][ IsTick =>
          /\ \/ /\ net_up_history' = net_up_history
                /\ net_down_history' = net_down_history
             \/ /\ PushedOne(net_up_history, net_up_history', net_up_label')
                /\ PushedOne(net_down_history, net_down_history', net_down_label')
          /\ tick'.stage = "done" =>
               /\ PushedOne(cpu_history, cpu_history', tick'.in.cpu)
               /\ PushedOne(mem_history, mem_history', tick'.in.mem)
               /\ IF tick'.in.now - last_update > 0
                  THEN /\ PushedOne(net_up_history, net_up_history', net_up_label')
                       /\ PushedOne(net_down_history, net_down_history', net_down_label')
                  ELSE /\ net_up_history' = net_up_history
                       /\ net_down_history' = net_down_history ]_vars

\* a tick with a rate followed by a completed tick without one
C15_Witness ==
    /\ ticks = 2
    /\ tick.stage = "done"
    /\ tick.in.now <= tick.prev_update
    /\ Last(cpu_history) = tick.in.cpu
    /\ cpu_history[max_data_points - 1] = tick.in.cpu
    /\ cpu_history[max_data_points - 2] = 0
    /\ Last(net_up_history) # Zero
    /\ net_up_history[max_data_points - 1] = Zero
    /\ Last(net_down_history) # Zero
    /\ net_down_history[max_data_points - 1] = Zero

\* C16: at the end of every tick last_net_io and last_update are the
\* counters and timestamp of that tick.
C16_EveryTickStoresSample ==
    [][ IsTick =>
          /\ last_update' = tick'.in.now
          /\ last_net_io' = [bytes_sent |-> tick'.in.sent, bytes_recv |-> tick'.in.recv] ]_vars

\* C17: only update_stats changes the previous sample and the four history
\* buffers; a tick changes a buffer by pushes of its own values only.
C17_OnlyTicksWriteEngineState ==
    [][ /\ ~IsTick => /\ cpu_history' = cpu_history /\ mem_history' = mem_history
                      /\ net_up_history' = net_up_history
                      /\ net_down_history' = net_down_history
                      /\ last_net_io' = last_net_io /\ last_update' = last_update
        /\ IsTick => /\ \/ cpu_history' = cpu_history
                        \/ PushedOne(cpu_history, cpu_history', tick'.in.cpu)
                     /\ \/ mem_history' = mem_history
                        \/ PushedOne(mem_history, mem_history', tick'.in.mem)
                     /\ \/ net_up_history' = net_up_history
                        \/ PushedOne(net_up_history, net_up_history', net_up_label')
                     /\ \/ net_down_history' = net_down_history
                        \/ PushedOne(net_down_history, net_down_history', net_down_label') ]_vars

\* the animation and the scroll timers have fired after the first tick
C17_Witness ==
    /\ ticks = 1
    /\ tick.stage = "done"
    /\ frames_len = 2
    /\ shown_frame = 1
    /\ code_len = 1
    /\ code_scroll_offset_right = 6
    /\ Last(cpu_history) = tick.in.cpu

\* C18: PyInstaller is started only after the pre-render step has ended,
\* frame_000.png exists whenever it starts, also without the model file,
\* and the pre-render step is not run when frame_000.png was there.
C18_FramesBeforePackaging ==
    /\ build_pc \in {"pyinstaller", "done"}
         => (prerender_pc \in {"off", "exit0"} /\ frames_exist)
    /\ cache_at_start >= 1 => prerender_pc = "off"

\* C19: last_net_io and last_update always come from one and the same
\* sampling, and a tick replaces both or neither.
C19_MatchedPair ==
    /\ [](Last(samples) = [bytes_sent |-> last_net_io.bytes_sent,
                           bytes_recv |-> last_net_io.bytes_recv, at |-> last_update])
    /\ [][ IsTick =>
             \/ last_net_io' = last_net_io /\ last_update' = last_update
             \/ /\ last_net_io' = [bytes_sent |-> tick'.in.sent, bytes_recv |-> tick'.in.recv]
                /\ last_update' = tick'.in.now ]_vars

\* a tick stored its sample, the next read the clock and then raised
C19_Witness ==
    /\ ticks = 2
    /\ tick.stage = "net"
    /\ Len(samples) = 2
    /\ samples[2].at # samples[1].at
    /\ tick.in.now # last_update
    /\ last_update = samples[2].at

StartupPos(x) == CHOOSE i \in 1..Len(startup) : startup[i] = x

StartupCount(x) == Cardinality({i \in 1..Len(startup) : startup[i] = x})

C21_FrameIndexValid ==
    /\ [](/\ frames_len > 0 => /\ current_frame \in 0..(frames_len - 1)
                               /\ shown_frame \in 0..(frames_len - 1)
          /\ frames_len = 0 => (current_frame = 0 /\ shown_frame = NoImage)
          /\ ui_ready => pending["animate_model"] = 1)
    /\ [][ \/ <<current_frame, shown_frame>>' = <<current_frame, shown_frame>>
           \/ /\ frames_len' > 0
              /\ shown_frame' = current_frame
              /\ current_frame' = IF current_frame = frames_len' - 1 THEN 0
                                  ELSE current_frame + 1 ]_vars

\* the last frame is on display and the index has wrapped to 0
C21_Witness ==
    /\ ui_ready
    /\ frames_len = MaxFrames
    /\ shown_frame = MaxFrames - 1
    /\ current_frame = 0
    /\ pending["animate_model"] = 1

\* C22: the divisor max_val of draw_network_graph is greater than 0 for any
\* content of the two network histories, so the drawing never divides by 0.
C22_DivisorPositive ==
    graph_pc \notin {"off", "idle"} => (graph_pc = "drawn" /\ RatGt(max_val, Zero))

\* drawn from histories without a positive value, one of them negative
C22_Witness ==
    /\ graph_pc = "drawn"
    /\ \A i \in 1..MaxPoints : /\ ~RatGt(net_up_history[i], Zero)
                               /\ ~RatGt(net_down_history[i], Zero)
    /\ \E i \in 1..MaxPoints : RatNeg(net_down_history[i])
    /\ \E i \in 1..MaxPoints : RatEq(net_up_history[i], Zero)
    /\ max_val = One

====
